---- MODULE Spec2Model ----
(***************************************************************************)
(* A model of dashboard.py: load_data (read, key normalization, left join, *)
(* has_ai_analysis, the st.cache_data memo and st.session_state), the      *)
(* chart helper plot_categorical_chart and one rerun of main (song         *)
(* selector, overview, detail view).                                       *)
(*                                                                         *)
(* A cell of a DataFrame is a tagged record: Null is np.nan, Str(s) a      *)
(* text, Num(n) a number, Bool(b) a boolean.  The text of a key column and *)
(* of display_name is a sequence of code points, so that concatenation and *)
(* the ordering used by sort_values are computed; other texts are opaque.  *)
(* A table is [cols, rows]: the set of column names and the sequence of    *)
(* rows, each a function from cols to cells.                               *)
(***************************************************************************)
EXTENDS Integers, Sequences, FiniteSets, TLC

VARIABLES fileA, fileB, cache, session_state, run

vars == <<fileA, fileB, cache, session_state, run>>

\* ------------------------------------------------------------------ bounds
\* Rows of the primary file and of the secondary file in SpecMerge.
MaxRows == 2
MaxAiRows == 2
\* Rows of the primary file in SpecSelector, SpecDisplay and SpecChart.
MaxSongs == 3
MaxKeyRows == 2
MaxChartRows == 2

\* ------------------------------------------------------------------ cells
Null == [k |-> "nan"]
Str(s) == [k |-> "str", s |-> s]
Num(n) == [k |-> "num", n |-> n]
Bool(b) == [k |-> "bool", b |-> b]
\* A key that st.session_state does not hold.
Unset == [k |-> "unset"]

\* The literals of the source, as code points.
s_nan == <<110, 97, 110>>
s_None == <<78, 111, 110, 101>>
s_empty == <<>>
s_NA == <<78, 47, 65>>
s_sep == <<32, 124, 32>>
s_A == <<65>>
s_B == <<66>>
s_A_A == <<65, 32, 124, 32, 65>>

AI_COLS == <<"track_name", "album_title", "ai_theme", "ai_sentiment", "ai_notes">>
KeyCols == <<"track_name", "album_title">>
\* '[ <four CJK characters> (General Dashboard) ]', the first option of the selector.
Overview == <<91, 32, 20027, 20736, 34920, 26495, 32, 40, 71, 101, 110, 101, 114, 97,
              108, 32, 68, 97, 115, 104, 98, 111, 97, 114, 100, 41, 32, 93>>

Range(f) == {f[i] : i \in DOMAIN f}

\* ----------------------------------------------------------------- tables
\* A table is [cols, rows].  cols is df.columns.  A row is a record over
\* every column name the program can meet; a column that the table does not
\* have holds Missing in it and is never read.
Missing == [k |-> "no column"]

BlankRow ==
    [track_name |-> Missing, album_title |-> Missing, ai_theme |-> Missing,
     ai_sentiment |-> Missing, ai_notes |-> Missing, ai_theme_x |-> Missing,
     ai_sentiment_x |-> Missing, ai_notes_x |-> Missing, ai_theme_y |-> Missing,
     ai_sentiment_y |-> Missing, ai_notes_y |-> Missing, key_key |-> Missing,
     genre_ros |-> Missing, key_scale |-> Missing, mood_party |-> Missing, has_ai_analysis |-> Missing,
     display_name |-> Missing]

NoTable == [cols |-> {}, rows |-> <<>>]

RECURSIVE AssignRows(_, _, _)
AssignRows(rows, col, vals) ==
    IF rows = <<>> THEN <<>>
    ELSE <<[Head(rows) EXCEPT ![col] = Head(vals)]>>
         \o AssignRows(Tail(rows), col, Tail(vals))

\* df[col] = vals: adds the column or overwrites it, row by row.
SetColumn(t, col, vals) ==
    [cols |-> t.cols \cup {col}, rows |-> AssignRows(t.rows, col, vals)]

\* The cells of a column computed from each row.
PerRow(t, F(_)) == [i \in DOMAIN t.rows |-> F(t.rows[i])]

RECURSIVE KeepCols(_, _, _)
KeepCols(src, colseq, r) ==
    IF colseq = <<>> THEN r
    ELSE KeepCols(src, Tail(colseq), [r EXCEPT ![Head(colseq)] = src[Head(colseq)]])

RECURSIVE ProjectRows(_, _)
ProjectRows(rows, colseq) ==
    IF rows = <<>> THEN <<>>
    ELSE <<KeepCols(Head(rows), colseq, BlankRow)>> \o ProjectRows(Tail(rows), colseq)

\* df[colseq]: the listed columns only.
Project(t, colseq) == [cols |-> Range(colseq), rows |-> ProjectRows(t.rows, colseq)]

\* Series.astype(str): a missing value becomes the text 'nan'.
AsTypeStr(v) == IF v = Null THEN Str(s_nan) ELSE v

\* The mutant of Replace: 'None' is not in the list of markers.
ReplaceNoNone(v) == IF v \in {Str(s_nan), Str(s_empty)} THEN Null ELSE v

\* Series.replace(['nan', 'None', ''], np.nan)
Replace(v) == IF v \in {Str(s_nan), Str(s_None), Str(s_empty)} THEN Null ELSE v

NormalizeCell(v) == Replace(AsTypeStr(v))

\* The loop over ['track_name', 'album_title']: a key column that is present
\* is normalized, one that is absent is left alone.
RECURSIVE NormalizeKeys(_, _)
NormalizeKeys(t, keys) ==
    IF keys = <<>> THEN t
    ELSE LET col == Head(keys)
             t1 == IF col \in t.cols
                   THEN SetColumn(t, col, PerRow(t, LAMBDA r : NormalizeCell(r[col])))
                   ELSE t
         IN NormalizeKeys(t1, Tail(keys))

\* ------------------------------------------------------------- pd.merge
SuffixX == [ai_theme |-> "ai_theme_x", ai_sentiment |-> "ai_sentiment_x",
            ai_notes |-> "ai_notes_x"]
SuffixY == [ai_theme |-> "ai_theme_y", ai_sentiment |-> "ai_sentiment_y",
            ai_notes |-> "ai_notes_y"]

\* The mutant of KeysMatch: the join compares track_name only.
KeysMatchTrackOnly(l, r) == l["track_name"] = r["track_name"]

\* The key comparison of the join: equal cells match, and pandas matches a
\* missing key with a missing key.
KeysMatch(l, r) == \A k \in Range(KeyCols) : l[k] = r[k]

\* Left row l joined with right row m (none: no right row matched): the
\* right table's value columns vcols are added; one that the left table
\* has too (overlap) comes out as <col>_x (left) and <col>_y (right).
RECURSIVE JoinRow(_, _, _, _)
JoinRow(l, m, vcols, overlap) ==
    IF vcols = <<>> THEN l
    ELSE LET c == Head(vcols)
             v == IF m.none THEN Null ELSE m.row[c]
             l1 == IF c \in overlap
                   THEN [l EXCEPT ![SuffixX[c]] = l[c], ![SuffixY[c]] = v, ![c] = Missing]
                   ELSE [l EXCEPT ![c] = v]
         IN JoinRow(l1, m, Tail(vcols), overlap)

RECURSIVE JoinEach(_, _, _, _)
JoinEach(l, ms, vcols, overlap) ==
    IF ms = <<>> THEN <<>>
    ELSE <<JoinRow(l, [none |-> FALSE, row |-> Head(ms)], vcols, overlap)>>
         \o JoinEach(l, Tail(ms), vcols, overlap)

\* The rows of a left join: for each left row in order, one row per
\* matching right row in the right table's order, or one row with missing
\* right cells when none matches.
RECURSIVE MergeRows(_, _, _, _)
MergeRows(lrows, rrows, vcols, overlap) ==
    IF lrows = <<>> THEN <<>>
    ELSE LET l == Head(lrows)
             ms == SelectSeq(rrows, LAMBDA r : KeysMatch(l, r))
         IN (IF ms = <<>> THEN <<JoinRow(l, [none |-> TRUE], vcols, overlap)>>
             ELSE JoinEach(l, ms, vcols, overlap))
            \o MergeRows(Tail(lrows), rrows, vcols, overlap)

\* pd.merge(left, right, on=['track_name', 'album_title'], how='left'):
\* raises KeyError when a key column is missing on either side.
Merge(left, right) ==
    IF ~(Range(KeyCols) \subseteq left.cols /\ Range(KeyCols) \subseteq right.cols)
    THEN [raised |-> TRUE, t |-> NoTable]
    ELSE LET vcols == SelectSeq(<<"ai_theme", "ai_sentiment", "ai_notes">>,
                                LAMBDA c : c \in right.cols)
             overlap == (left.cols \cap right.cols) \ Range(KeyCols)
         IN [raised |-> FALSE,
             t |-> [cols |-> {IF c \in overlap THEN SuffixX[c] ELSE c : c \in left.cols}
                             \cup {IF c \in overlap THEN SuffixY[c] ELSE c :
                                     c \in right.cols \ Range(KeyCols)},
                    rows |-> MergeRows(left.rows, right.rows, vcols, overlap)]]

\* ------------------------------------------------------------ load_data
\* ai_theme.notna() & ~ai_theme.isin(['SKIPPED', 'ERROR'])
Usable(theme) == theme # Null /\ theme \notin {Str("SKIPPED"), Str("ERROR")}

HasAi(r) == Bool(Usable(r["ai_theme"]))

ForceFalse(t) == SetColumn(t, "has_ai_analysis", PerRow(t, LAMBDA r : Bool(FALSE)))

\* The session's flag is Unset ('ai_available' not in st.session_state) or
\* the boolean stored under that key.
\* The body of load_data on files fA, fB with the session's flag:
\* what it returns (none: the Python None), the branch that returned, and
\* the flag afterwards.
LoadBody(fA, fB, flag) ==
    IF fA.st # "ok"
    THEN [none |-> TRUE, df |-> NoTable, branch |-> "fatal", flag |-> flag]
    ELSE LET df_ultimate == NormalizeKeys(fA.t, KeyCols)
             fallback(b) == [none |-> FALSE, df |-> ForceFalse(df_ultimate),
                             branch |-> b, flag |-> Bool(FALSE)]
         IN IF fB.st = "absent"
            THEN [none |-> FALSE, df |-> ForceFalse(df_ultimate), branch |-> "absent",
                  flag |-> IF flag = Unset THEN Bool(FALSE) ELSE flag]
            ELSE IF fB.st = "bad" THEN fallback("raised")
            ELSE IF ~(Range(AI_COLS) \subseteq fB.t.cols) THEN fallback("missing_cols")
            ELSE LET df_ai == NormalizeKeys(fB.t, KeyCols)
                     mg == Merge(df_ultimate, Project(df_ai, AI_COLS))
                 IN IF mg.raised \/ "ai_theme" \notin mg.t.cols
                    THEN fallback("raised")
                    ELSE [none |-> FALSE,
                          df |-> SetColumn(mg.t, "has_ai_analysis", PerRow(mg.t, HasAi)),
                          branch |-> "merged", flag |-> Bool(TRUE)]


\* st.cache_data on load_data(): the memo has no key beyond the function
\* itself.  A hit returns the stored value without running the body, so the
\* session's flag is not written; a miss runs the body and stores the value.
\* branch travels with the value the way the replayed st.info / st.warning /
\* st.error message of the branch does.
LoadData(c, fA, fB, flag) ==
    IF c.st = "hit"
    THEN [none |-> c.none, df |-> c.df, branch |-> c.branch, flag |-> flag,
          executed |-> FALSE]
    ELSE LET b == LoadBody(fA, fB, flag)
         IN [none |-> b.none, df |-> b.df, branch |-> b.branch, flag |-> b.flag,
             executed |-> TRUE]

\* ----------------------------------------------- plot_categorical_chart
\* column not in df.columns or df[column].dropna().empty
NothingToPlot(df, column) ==
    \/ column \notin df.cols
    \/ \A i \in DOMAIN df.rows : df.rows[i][column] = Null

\* df.dropna(subset=[column]): a new table, the argument is not changed.
DropNa(df, column) ==
    [cols |-> df.cols, rows |-> SelectSeq(df.rows, LAMBDA r : r[column] # Null)]

key_map == [n \in 0..11 |->
              <<"C", "C#", "D", "D#", "E", "F", "F#", "G", "G#", "A", "A#", "B">>[n + 1]]

\* The mutant of KeyMapGet: the table is indexed one off.
KeyMapGetShifted(x) ==
    IF x.k = "num" /\ x.n \in 1..12 THEN Str(key_map[x.n - 1]) ELSE Null

\* key_map.get(x, pd.NA)
KeyMapGet(x) ==
    IF x.k = "num" /\ x.n \in DOMAIN key_map THEN Str(key_map[x.n]) ELSE Null

\* Series.value_counts(): the count of each distinct value.
ValueCounts(t, column) ==
    [v \in {t.rows[i][column] : i \in DOMAIN t.rows} |->
        Cardinality({i \in DOMAIN t.rows : t.rows[i][column] = v})]

\* .head(top_n) of the counts in descending order; which of several equal
\* counts is kept at the cut is pandas' choice.
HeadCounts(counts, top_n) ==
    IF Cardinality(DOMAIN counts) <= top_n THEN counts
    ELSE LET S == CHOOSE S \in SUBSET DOMAIN counts :
                    /\ Cardinality(S) = top_n
                    /\ \A a \in S, b \in (DOMAIN counts) \ S : counts[a] >= counts[b]
         IN [v \in S |-> counts[v]]

NoChart == [none |-> TRUE, counts |-> <<>>]

\* plot_categorical_chart(df, column, title, top_n): the chart's data
\* (value -> count) or None, and the argument df as the call leaves it.
PlotCategoricalChart(df, column, top_n) ==
    IF NothingToPlot(df, column) THEN [chart |-> NoChart, df |-> df]
    ELSE LET data == DropNa(df, column)
             mapped == IF column = "key_key"
                       THEN DropNa(SetColumn(data, column,
                                 PerRow(data, LAMBDA r : KeyMapGet(r[column]))), column)
                       ELSE data
         IN [chart |-> [none |-> FALSE,
                        counts |-> HeadCounts(ValueCounts(mapped, column), top_n)],
             df |-> df]

\* plot_histogram(df, column, title): None, or a chart over the rows whose
\* value is present (the binning is Altair's).
PlotHistogram(df, column) ==
    IF NothingToPlot(df, column) THEN NoChart
    ELSE [none |-> FALSE, counts |-> ValueCounts(DropNa(df, column), column)]

\* ------------------------------------------------------------------ main
\* Series.fillna('N/A')
FillNa(v) == IF v = Null THEN Str(s_NA) ELSE v

DisplayName(r) ==
    Str(FillNa(r["track_name"]).s \o s_sep \o FillNa(r["album_title"]).s)

\* Lines 152-163 of main: the default key columns, display_name, and the
\* default has_ai_analysis.
WithDisplay(df) ==
    LET d1 == IF "track_name" \notin df.cols
              THEN SetColumn(df, "track_name", PerRow(df, LAMBDA r : Str(s_NA))) ELSE df
        d2 == IF "album_title" \notin d1.cols
              THEN SetColumn(d1, "album_title", PerRow(d1, LAMBDA r : Str(s_NA))) ELSE d1
        d3 == SetColumn(d2, "display_name", PerRow(d2, DisplayName))
    IN IF "has_ai_analysis" \notin d3.cols
       THEN SetColumn(d3, "has_ai_analysis", PerRow(d3, LAMBDA r : Bool(FALSE))) ELSE d3

\* The order of Python's str: by code point, a proper prefix first.
RECURSIVE LexLess(_, _)
LexLess(a, b) ==
    IF b = <<>> THEN FALSE
    ELSE IF a = <<>> THEN TRUE
    ELSE IF Head(a) # Head(b) THEN Head(a) < Head(b)
    ELSE LexLess(Tail(a), Tail(b))

\* The mutant of RowBefore: has_ai_analysis ascending (False first).
RowBeforeAscending(r1, r2) ==
    \/ ~r1["has_ai_analysis"].b /\ r2["has_ai_analysis"].b
    \/ /\ r1["has_ai_analysis"] = r2["has_ai_analysis"]
       /\ LexLess(r1["display_name"].s, r2["display_name"].s)

\* by=['has_ai_analysis', 'display_name'], ascending=[False, True]
RowBefore(r1, r2) ==
    \/ r1["has_ai_analysis"].b /\ ~r2["has_ai_analysis"].b
    \/ /\ r1["has_ai_analysis"] = r2["has_ai_analysis"]
       /\ LexLess(r1["display_name"].s, r2["display_name"].s)

\* r put into the sorted sequence s, after the rows it does not precede.
RECURSIVE InsertSorted(_, _)
InsertSorted(r, s) ==
    IF s = <<>> THEN <<r>>
    ELSE IF RowBefore(r, Head(s)) THEN <<r>> \o s
    ELSE <<Head(s)>> \o InsertSorted(r, Tail(s))

\* df.sort_values(...): rows equal on both sort columns keep their order.
RECURSIVE SortValues(_)
SortValues(rows) ==
    IF rows = <<>> THEN <<>>
    ELSE InsertSorted(rows[Len(rows)], SortValues(SubSeq(rows, 1, Len(rows) - 1)))

\* Series.unique(): the distinct values in order of first appearance.
RECURSIVE Unique(_)
Unique(s) ==
    IF s = <<>> THEN <<>>
    ELSE LET u == Unique(SubSeq(s, 1, Len(s) - 1))
             x == s[Len(s)]
         IN IF x \in Range(u) THEN u ELSE Append(u, x)

SongList(df) ==
    LET sorted == SortValues(df.rows)
    IN <<Overview>> \o Unique([i \in DOMAIN sorted |-> sorted[i]["display_name"].s])

\* st.session_state.get('ai_available', False)
AiAvailable(flag) == IF flag = Unset THEN FALSE ELSE flag.b

NoRow == [none |-> TRUE]

NoRun == [outcome |-> "none", session |-> "", executed |-> FALSE, branch |-> "",
          loaded |-> NoTable, df |-> NoTable, ai_defined |-> FALSE, ai_available |-> FALSE,
          song_list |-> <<>>, selected_song |-> <<>>, song_data |-> NoRow,
          shows_ai |-> FALSE, songs_with_ai |-> 0, chart_key |-> NoChart,
          chart_genre |-> NoChart, chart_party |-> NoChart, df_after_key |-> NoTable]

\* The overview (lines 186-284): the counts, the categorical charts, the
\* mood_party histogram, and then line 283, which reads chart_dance, a name
\* that no statement assigns (the assignment is inside the comment of line
\* 282): the pass ends there with a NameError.
OverviewPass(base, df, flag) ==
    LET genre == PlotCategoricalChart(df, "genre_ros", 15)
        scale == PlotCategoricalChart(df, "key_scale", 15)
        df_key == df
        key == IF "key_key" \in df_key.cols
               THEN PlotCategoricalChart(df_key, "key_key", 12)
               ELSE [chart |-> NoChart, df |-> df_key]
        party == PlotHistogram(df, "mood_party")
    IN [base EXCEPT
          !.songs_with_ai =
              IF AiAvailable(flag) /\ "has_ai_analysis" \in df.cols
              THEN Cardinality({i \in DOMAIN df.rows : df.rows[i]["has_ai_analysis"].b})
              ELSE 0,
          !.chart_genre = genre.chart,
          !.chart_key = key.chart,
          !.chart_party = party,
          !.df_after_key = key.df,
          !.outcome = "NameError"]

\* df[df['display_name'] == selected_song], then .iloc[0]
FirstRow(df, name) ==
    LET rows == SelectSeq(df.rows, LAMBDA r : r["display_name"].s = name)
    IN IF rows = <<>> THEN NoRow ELSE [none |-> FALSE, row |-> rows[1]]

\* The detail view (lines 287-360).
SongPass(base, df, flag) ==
    LET song_data == FirstRow(df, base.selected_song)
    IN IF song_data.none THEN [base EXCEPT !.outcome = "not_found"]
       ELSE [base EXCEPT
               !.song_data = song_data,
               !.shows_ai = /\ AiAvailable(flag)
                            /\ "ai_theme" \in df.cols
                            /\ Usable(song_data.row["ai_theme"]),
               !.outcome = "done"]

\* One rerun of the script in session s: main() from load_data() to the end
\* of the view, or to the statement that raises.
Main(s) ==
    LET ld == LoadData(cache, fileA, fileB, session_state[s])
        base == [NoRun EXCEPT !.session = s, !.executed = ld.executed,
                              !.branch = ld.branch, !.loaded = ld.df,
                              !.ai_defined = (ld.flag # Unset),
                              !.ai_available = AiAvailable(ld.flag)]
    IN /\ cache' = [st |-> "hit", none |-> ld.none, df |-> ld.df, branch |-> ld.branch]
       /\ session_state' = [session_state EXCEPT ![s] = ld.flag]
       /\ UNCHANGED <<fileA, fileB>>
       /\ IF ld.none
          THEN run' = [base EXCEPT !.outcome = "load_failed"]
          ELSE LET df == WithDisplay(ld.df)
                   song_list == SongList(df)
               IN \E i \in DOMAIN song_list :
                     LET b2 == [base EXCEPT !.df = df, !.song_list = song_list,
                                            !.selected_song = song_list[i]]
                     IN run' = IF song_list[i] = Overview
                               THEN OverviewPass(b2, df, ld.flag)
                               ELSE SongPass(b2, df, ld.flag)

Sessions == {"s1", "s2"}

\* ------------------------------------------------------- the environment
\* The primary file is created, removed or rewritten.
ChangeFileA(files) ==
    /\ \E f \in files : f # fileA /\ fileA' = f
    /\ UNCHANGED <<fileB, cache, session_state, run>>

\* The secondary file is created, removed or rewritten.
ChangeFileB(files) ==
    /\ \E f \in files : f # fileB /\ fileB' = f
    /\ UNCHANGED <<fileA, cache, session_state, run>>

\* The memo is emptied (Streamlit's "Clear cache", or an edit of load_data).
ClearCache ==
    /\ cache.st = "hit"
    /\ cache' = [st |-> "empty"]
    /\ UNCHANGED <<fileA, fileB, session_state, run>>

\* The browser page is reloaded: session s starts with an empty session_state.
NewSession(s) ==
    /\ session_state[s] # Unset
    /\ session_state' = [session_state EXCEPT ![s] = Unset]
    /\ UNCHANGED <<fileA, fileB, cache, run>>

StartWith(filesA, filesB) ==
    /\ fileA \in filesA
    /\ fileB \in filesB
    /\ cache = [st |-> "empty"]
    /\ session_state = [s \in Sessions |-> Unset]
    /\ run = NoRun

\* ------------------------------------------------------------ the inputs
\* A file is absent, unreadable as CSV (read_csv raises), or holds a table.
Absent == [st |-> "absent"]
Bad == [st |-> "bad"]
File(t) == [st |-> "ok", t |-> t]

\* Every table of at most n rows drawn from rowset, with columns colset.
Tables(rowset, n, colset) ==
    {[cols |-> colset, rows |-> rs] : rs \in UNION {[1..m -> rowset] : m \in 0..n}}

KeyRows(tracks, albums) ==
    {[BlankRow EXCEPT !.track_name = t, !.album_title = a] : t \in tracks, a \in albums}

AiRows(tracks, albums, themes) ==
    {[BlankRow EXCEPT !.track_name = t, !.album_title = a, !.ai_theme = th,
                      !.ai_sentiment = Str("sad"), !.ai_notes = Str("notes")] :
        t \in tracks, a \in albums, th \in themes}

\* A secondary file without the ai_theme column.
AiNoTheme ==
    File([cols |-> {"track_name", "album_title", "ai_sentiment"},
          rows |-> <<[BlankRow EXCEPT !.track_name = Str(s_A), !.album_title = Str(s_A),
                                      !.ai_sentiment = Str("sad")]>>])

\* -- Spec: sessions, the memo and the files changing under the dashboard.
\* A primary file with an ai_theme column of its own.
PrimaryWithTheme ==
    File([cols |-> {"track_name", "album_title", "ai_theme"},
          rows |-> <<[BlankRow EXCEPT !.track_name = Str(s_A), !.album_title = Str(s_A),
                                      !.ai_theme = Str("love")]>>])

FilesA ==
    {Absent, Bad, PrimaryWithTheme}
    \cup {File(t) : t \in Tables(KeyRows({Str(s_A)}, {Str(s_A)}), 1,
                                 {"track_name", "album_title"})}

FilesB ==
    {Absent, Bad, AiNoTheme}
    \cup {File(t) : t \in Tables(AiRows({Str(s_A)}, {Str(s_A)}, {Str("love")}),
                                 1, Range(AI_COLS))}

Init == StartWith(FilesA, FilesB)

Next ==
    \/ \E s \in Sessions : Main(s)
    \/ ChangeFileA(FilesA)
    \/ ChangeFileB(FilesB)
    \/ ClearCache
    \/ \E s \in Sessions : NewSession(s)

Spec == Init /\ [][Next]_vars

\* -- SpecMerge: the join, on fixed files, rendered in one session.
MergeFilesA ==
    {File(t) : t \in Tables(KeyRows({Null, Str(s_A)}, {Str(s_A), Str(s_B)}), MaxRows,
                            {"track_name", "album_title"})}

MergeFilesB ==
    {File(t) : t \in Tables(AiRows({Str(s_nan), Str(s_A)}, {Str(s_A), Str(s_B)},
                                   {Str("love")}),
                            MaxAiRows, Range(AI_COLS))}

InitMerge == StartWith(MergeFilesA, MergeFilesB)

NextRender == Main("s1")

SpecMerge == InitMerge /\ [][NextRender]_vars

\* -- SpecSelector: the song selector over up to MaxSongs songs.
SelectorFilesA ==
    {File(t) : t \in Tables(KeyRows({Str(s_A)}, {Str(s_A), Str(s_B)})
                            \cup KeyRows({Str(s_B)}, {Str(s_A)}),
                            MaxSongs, {"track_name", "album_title"})}

SelectorFilesB ==
    {File(t) : t \in Tables(AiRows({Str(s_A)}, {Str(s_A), Str(s_B)}, {Str("love")})
                            \cup AiRows({Str(s_B)}, {Str(s_A)}, {Str("love")})
                            \cup AiRows({Str(s_A)}, {Str(s_A)}, {Str("SKIPPED")}),
                            MaxAiRows, Range(AI_COLS))}

InitSelector == StartWith(SelectorFilesA, SelectorFilesB)

SpecSelector == InitSelector /\ [][NextRender]_vars

\* -- SpecDisplay: display_name over every form of a missing key, with the
\* key columns present or not, in every branch of load_data.
KeyForms == {Null, Str(s_nan), Str(s_None), Str(s_empty), Str(s_A)}

DisplayFilesA ==
    {File(t) : t \in Tables(KeyRows(KeyForms, {Null, Str(s_None), Str(s_A)}), MaxKeyRows,
                            {"track_name", "album_title"})}
    \cup {File(t) : t \in Tables({[BlankRow EXCEPT !.track_name = v] : v \in KeyForms},
                                 MaxKeyRows, {"track_name"})}
    \cup {File(t) : t \in Tables({[BlankRow EXCEPT !.album_title = v] : v \in KeyForms},
                                 MaxKeyRows, {"album_title"})}
    \cup {File(t) : t \in Tables({[BlankRow EXCEPT !.genre_ros = Str("pop")]},
                                 MaxKeyRows, {"genre_ros"})}

DisplayFilesB ==
    {Absent, Bad, AiNoTheme}
    \cup {File([cols |-> Range(AI_COLS), rows |-> <<r>>]) :
            r \in AiRows({Str(s_nan)}, {Str(s_A)}, {Str("love")})}

InitDisplay == StartWith(DisplayFilesA, DisplayFilesB)

SpecDisplay == InitDisplay /\ [][NextRender]_vars

\* -- SpecChart: the key_key chart over every code 0..12 and the missing code.
KeyCodes == {Null} \cup {Num(n) : n \in 0..12}

ChartFilesA ==
    {File(t) : t \in Tables({[BlankRow EXCEPT !.track_name = Str(s_A),
                                              !.album_title = Str(s_B),
                                              !.key_key = k] : k \in KeyCodes},
                            MaxChartRows, {"track_name", "album_title", "key_key"})}
    \cup {File(t) : t \in Tables(KeyRows({Str(s_A)}, {Str(s_B)}), 1,
                                 {"track_name", "album_title"})}

InitChart == StartWith(ChartFilesA, {Absent})

SpecChart == InitChart /\ [][NextRender]_vars

\* =============================================================== claims
\* A pass of main that got a table from load_data.
Rendered == run.outcome \notin {"none", "load_failed"}

\* The ai_theme of a row; a table without the column counts as null.
ThemeOf(t, r) == IF "ai_theme" \in t.cols THEN r["ai_theme"] ELSE Null

\* A key that stands for "missing" in the source.
NullLike(v) == v \in {Null, Str(<<110, 97, 110>>), Str(<<78, 111, 110, 101>>), Str(<<>>)}

\* a before b in code point order, a proper prefix first.
StrLess(a, b) ==
    \E k \in 1..Len(b) :
        /\ \A m \in 1..(k - 1) : m <= Len(a) /\ a[m] = b[m]
        /\ (k > Len(a) \/ a[k] < b[k])

\* name is the display_name of a row with has_ai_analysis = true.
InTrueGroup(t, name) ==
    \E i \in DOMAIN t.rows :
        t.rows[i]["display_name"].s = name /\ t.rows[i]["has_ai_analysis"] = Bool(TRUE)

\* C1: in every row of the table load_data returns, whichever branch
\* returned it, has_ai_analysis is true exactly when ai_theme is present and
\* is neither "SKIPPED" nor "ERROR".
C1_HasAiIffUsableTheme ==
    Rendered =>
        \A i \in DOMAIN run.loaded.rows :
            LET r == run.loaded.rows[i]
                theme == ThemeOf(run.loaded, r)
            IN (r["has_ai_analysis"] = Bool(TRUE))
               <=> (theme # Null /\ theme # Str("SKIPPED") /\ theme # Str("ERROR"))

\* The normalized form of a source key.
NormKey(v) == IF NullLike(v) THEN Null ELSE v

PrimaryKeysDistinct ==
    \A i, j \in DOMAIN fileA.t.rows :
        i # j => \E k \in {"track_name", "album_title"} :
                    fileA.t.rows[i][k] # fileA.t.rows[j][k]

SecondaryKeysDistinct ==
    \A i, j \in DOMAIN fileB.t.rows :
        i # j => \E k \in {"track_name", "album_title"} :
                    NormKey(fileB.t.rows[i][k]) # NormKey(fileB.t.rows[j][k])

\* Row i of the merged table is primary row i with its keys normalized.
KeepsPrimaryRow(i) ==
    \A c \in fileA.t.cols :
        run.loaded.rows[i][c] =
            IF c \in {"track_name", "album_title"} THEN NormKey(fileA.t.rows[i][c])
            ELSE fileA.t.rows[i][c]

NoAnnotation(i) ==
    \A c \in {"ai_theme", "ai_sentiment", "ai_notes"} : run.loaded.rows[i][c] = Null

\* C2 as stated: in the merge branch, a primary table of N rows with pairwise
\* distinct key pairs gives, for any well-formed secondary table, exactly N
\* rows, each primary row once, and null annotations for every primary row
\* that no secondary row equals on two present key values.
C2_LeftJoinKeepsCardinality ==
    (Rendered /\ run.branch = "merged" /\ PrimaryKeysDistinct) =>
        /\ Len(run.loaded.rows) = Len(fileA.t.rows)
        /\ \A i \in DOMAIN fileA.t.rows :
              /\ KeepsPrimaryRow(i)
              /\ (~\E j \in DOMAIN fileB.t.rows :
                     \A k \in {"track_name", "album_title"} :
                        /\ NormKey(fileA.t.rows[i][k]) # Null
                        /\ NormKey(fileB.t.rows[j][k]) = NormKey(fileA.t.rows[i][k]))
                 => NoAnnotation(i)

\* C2 amended: the same for a secondary table whose normalized key pairs are
\* pairwise distinct, a missing key counting as equal to a missing key: N
\* rows, each primary row once and in order, and null annotations for every
\* primary row whose normalized key pair no secondary row has.
C2_LeftJoinUniqueSecondary ==
    (Rendered /\ run.branch = "merged" /\ PrimaryKeysDistinct /\ SecondaryKeysDistinct) =>
        /\ Len(run.loaded.rows) = Len(fileA.t.rows)
        /\ \A i \in DOMAIN fileA.t.rows :
              /\ KeepsPrimaryRow(i)
              /\ (~\E j \in DOMAIN fileB.t.rows :
                     \A k \in {"track_name", "album_title"} :
                        NormKey(fileB.t.rows[j][k]) = NormKey(fileA.t.rows[i][k]))
                 => NoAnnotation(i)

\* Two primary rows joined with two secondary rows of distinct keys: one
\* primary row is annotated, the other has no match.
C2_Witness ==
    /\ Rendered /\ run.branch = "merged"
    /\ PrimaryKeysDistinct /\ SecondaryKeysDistinct
    /\ Len(fileA.t.rows) = 2 /\ Len(fileB.t.rows) = 2
    /\ Len(run.loaded.rows) = 2
    /\ run.loaded.rows[1]["ai_theme"] = Str("love")
    /\ NoAnnotation(2)

\* C3: a pass that got a table has the has_ai_analysis column in it, and the
\* 'ai_available' flag main reads is set in that session and is true
\* exactly when the table is the merged one, memo hit or not.
C3_FlagMatchesTable ==
    Rendered =>
        /\ "has_ai_analysis" \in run.loaded.cols
        /\ run.ai_defined
        /\ run.ai_available <=> (run.branch = "merged")

\* C4: a pass that executes load_data with the primary file readable and the
\* secondary file absent gets the key-normalized primary table with
\* has_ai_analysis false in every row, and 'ai_available' is false afterwards.
C4_AbsentSecondaryRecorded ==
    [][(run' # run /\ run'.executed /\ run'.branch = "absent") =>
          /\ fileA.st = "ok" /\ fileB.st = "absent"
          /\ run'.loaded.cols = fileA.t.cols \cup {"has_ai_analysis"}
          /\ Len(run'.loaded.rows) = Len(fileA.t.rows)
          /\ \A i \in DOMAIN fileA.t.rows :
                /\ \A c \in fileA.t.cols :
                      run'.loaded.rows[i][c] =
                          IF c \in {"track_name", "album_title"}
                          THEN NormKey(fileA.t.rows[i][c]) ELSE fileA.t.rows[i][c]
                /\ run'.loaded.rows[i]["has_ai_analysis"] = Bool(FALSE)
          /\ session_state'[run'.session] = Bool(FALSE)]_vars

\* C5: a pass gets from load_data what the files on disk give at that
\* moment (the table of the branch they select, or the failure), never a
\* result computed from earlier files.
C5_LoadFollowsFiles ==
    [][run' # run =>
          LET fresh == LoadBody(fileA, fileB, Unset)
          IN /\ (run'.outcome = "load_failed") <=> fresh.none
             /\ run'.branch = fresh.branch
             /\ run'.loaded = fresh.df]_vars

\* C6: with the primary file loaded, the pass runs to its end (the overview
\* or the detail view) without an unhandled error; with no primary table it
\* shows the error and returns before the selector is built.
C6_RenderCompletes ==
    run.outcome # "none" =>
        IF run.branch = "fatal"
        THEN run.outcome = "load_failed" /\ run.song_list = <<>>
        ELSE run.outcome \in {"done", "not_found"}

\* C7: the selector is the overview entry followed by every distinct
\* display_name once, the names of rows with has_ai_analysis = true before
\* the names that only rows with has_ai_analysis = false have, and each of
\* the two groups in ascending order.
C7_SelectorOrder ==
    Rendered =>
        LET names == Tail(run.song_list)
        IN /\ Head(run.song_list) = Overview
           /\ Range(names) = {run.df.rows[i]["display_name"].s : i \in DOMAIN run.df.rows}
           /\ \A i, j \in DOMAIN names :
                 i < j =>
                    /\ names[i] # names[j]
                    /\ InTrueGroup(run.df, names[j]) => InTrueGroup(run.df, names[i])
                    /\ (InTrueGroup(run.df, names[i]) = InTrueGroup(run.df, names[j]))
                       => StrLess(names[i], names[j])

\* The example of the claim: "A | B" and "B | A" are annotated, "A | A" is
\* not, and the selector lists them in that order.
C7_Witness ==
    /\ Rendered
    /\ Tail(run.song_list) = << <<65, 32, 124, 32, 66>>, <<66, 32, 124, 32, 65>>,
                                <<65, 32, 124, 32, 65>> >>
    /\ ~InTrueGroup(run.df, <<65, 32, 124, 32, 65>>)

\* One side of a display name: 'N/A' for a key that is missing in the
\* source (or whose column the file lacks), the key's text otherwise.
Side(t, r, col) ==
    IF col \notin t.cols \/ NullLike(r[col]) THEN <<78, 47, 65>> ELSE r[col].s

\* C8: every row's display_name is "<track or N/A> | <album or N/A>", with
\* N/A on the side whose source key is null, "nan", "None" or "" or whose
\* column is absent, in every branch of load_data.
C8_DisplayNamePlaceholder ==
    Rendered =>
        /\ Len(run.df.rows) = Len(fileA.t.rows)
        /\ \A i \in DOMAIN fileA.t.rows :
              run.df.rows[i]["display_name"] =
                  Str(Side(fileA.t, fileA.t.rows[i], "track_name")
                      \o <<32, 124, 32>>
                      \o Side(fileA.t, fileA.t.rows[i], "album_title"))

\* A merged table whose first row had the text "None" as track_name and a
\* real album: it is shown as "N/A | A".
C8_Witness ==
    /\ Rendered /\ run.branch = "merged"
    /\ Len(fileA.t.rows) >= 1
    /\ fileA.t.rows[1]["track_name"] = Str(<<78, 111, 110, 101>>)
    /\ run.df.rows[1]["display_name"] = Str(<<78, 47, 65, 32, 124, 32, 65>>)

NoteNames == <<"C", "C#", "D", "D#", "E", "F", "F#", "G", "G#", "A", "A#", "B">>

\* Rows of the table main holds whose key_key is code n.
CodeCount(n) ==
    Cardinality({i \in DOMAIN run.df.rows : run.df.rows[i]["key_key"] = Num(n)})

\* C9: the key_key chart counts each row with a code 0..11 under its note
\* name (0 -> C, 5 -> F, 11 -> B), leaves out the rows whose code is null or
\* outside 0..11, raises nothing, and leaves the caller's key_key codes as
\* they were.
C9_KeyRemapIsViewLocal ==
    (run.outcome = "NameError" /\ "key_key" \in run.df.cols) =>
        LET named == {n \in 0..11 : CodeCount(n) > 0}
            allnull == \A i \in DOMAIN run.df.rows : run.df.rows[i]["key_key"] = Null
        IN /\ run.df_after_key = run.df
           /\ run.chart_key.none <=> allnull
           /\ ~allnull =>
                 /\ DOMAIN run.chart_key.counts = {Str(NoteNames[n + 1]) : n \in named}
                 /\ \A n \in named : run.chart_key.counts[Str(NoteNames[n + 1])] = CodeCount(n)
                 /\ CodeCount(0) > 0 => run.chart_key.counts[Str("C")] = CodeCount(0)
                 /\ CodeCount(5) > 0 => run.chart_key.counts[Str("F")] = CodeCount(5)
                 /\ CodeCount(11) > 0 => run.chart_key.counts[Str("B")] = CodeCount(11)

\* A table with code 5 and code 12: the chart counts one F and nothing else.
C9_Witness ==
    /\ run.outcome = "NameError" /\ "key_key" \in run.df.cols
    /\ Len(run.df.rows) = 2
    /\ run.df.rows[1]["key_key"] = Num(5)
    /\ run.df.rows[2]["key_key"] = Num(12)
    /\ run.chart_key = [none |-> FALSE, counts |-> [v \in {Str("F")} |-> 1]]

\* C10: a selected song is found in the table, and a song listed in the
\* has_ai_analysis = true group is shown from a row with
\* has_ai_analysis = true.
C10_SelectionResolvesToListedRow ==
    run.outcome \in {"done", "not_found"} =>
        /\ run.outcome = "done"
        /\ InTrueGroup(run.df, run.selected_song)
              => run.song_data.row["has_ai_analysis"] = Bool(TRUE)
====
